---- MODULE Spec2Model ----
(***************************************************************************)
(* Model of three fragments of the teagram userbot:                        *)
(*   teagram/modules/config.py     the inline configuration editor         *)
(*   teagram/bot/token_manager.py  the scripted BotFather conversations    *)
(*   teagram/utils.py              get_full_command, random_id, paste_neko *)
(* Python strings are sequences of one-character strings.                  *)
(***************************************************************************)
EXTENDS Integers, Sequences, FiniteSets, TLC

VARIABLES
    call,            \* pure functions: the call being made, [fn, arg]
    result,          \* pure functions: its outcome, [kind, exc, val]
    me,              \* ConfigMod.me: the recorded owner id
    pending,         \* ConfigMod.pending: False or the attribute being edited
    pending_id,      \* ConfigMod.pending_id
    pending_module,  \* ConfigMod.pending_module: False or the module edited
    config,          \* ConfigMod.config: what get_attrs last stored
    config_db,       \* ConfigMod.config_db: what get_attrs last stored
    bot_cfg,         \* self.bot.cfg: correlation id -> pending edit
    values,          \* the live Config of every plugin: module -> attribute -> value
    store,           \* the settings store: <<module name, attribute>> -> value
    buttons,         \* callback data of the inline buttons rendered so far
    last,            \* the last callback handled and how it was answered
    op,              \* TokenManager: the method running
    step,            \* TokenManager: the message of the script reached
    phase,           \* TokenManager: "ask", "wait" (in get_response) or "done"
    sent,            \* the messages delivered to @BotFather
    owed,            \* the delivered messages @BotFather has not answered yet
    inbox,           \* @BotFather's messages not yet taken by get_response
    received,        \* the messages get_response has returned, in order
    response,        \* the local variable response
    blocked,         \* whether the account has blocked @BotFather
    display_name,    \* get_display_name(self._manager.me)
    bot_username,    \* bot_username (local in _create_bot, self.bot_username in _revoke_token)
    token,           \* the local variable token
    ret,             \* what the method returned
    log,             \* the levels of the log lines written
    extra            \* the messages @BotFather has sent without being asked

pureVars == <<call, result>>
cfgVars == <<me, pending, pending_id, pending_module, config, config_db,
             bot_cfg, values, store, buttons, last>>
convVars == <<op, step, phase, sent, owed, inbox, received, response, blocked,
              display_name, bot_username, token, ret, log, extra>>
vars == <<pureVars, cfgVars, convVars>>

-----------------------------------------------------------------------------
(* Characters and strings                                                  *)

UpperSeq == <<"A","B","C","D","E","F","G","H","I","J","K","L","M",
              "N","O","P","Q","R","S","T","U","V","W","X","Y","Z">>
LowerSeq == <<"a","b","c","d","e","f","g","h","i","j","k","l","m",
              "n","o","p","q","r","s","t","u","v","w","x","y","z">>
DigitSeq == <<"0","1","2","3","4","5","6","7","8","9">>

Range(f) == {f[i] : i \in DOMAIN f}

Digits == Range(DigitSeq)
Letters == Range(UpperSeq) \cup Range(LowerSeq)
WhiteSpace == {" ", "\t", "\n"}

\* str.lower() on one character
LowerChar(c) ==
    IF c \in Range(UpperSeq)
    THEN LowerSeq[CHOOSE i \in DOMAIN UpperSeq : UpperSeq[i] = c]
    ELSE c

UpperChar(c) ==
    IF c \in Range(LowerSeq)
    THEN UpperSeq[CHOOSE i \in DOMAIN LowerSeq : LowerSeq[i] = c]
    ELSE c

\* str.lower()
Lower(s) == [i \in 1..Len(s) |-> LowerChar(s[i])]

\* s[i:j] with Python's 0-based half-open bounds already converted:
\* the characters at 1-based positions i..j
Slice(s, i, j) == IF j < i THEN <<>> ELSE SubSeq(s, i, j)

\* s.startswith(p)
StartsWith(s, p) == Len(p) <= Len(s) /\ SubSeq(s, 1, Len(p)) = p

\* the 1-based positions at which p occurs in s
Occurrences(s, p) ==
    {i \in 1..(Len(s) - Len(p) + 1) : SubSeq(s, i, i + Len(p) - 1) = p}

\* p in s
Contains(s, p) == Occurrences(s, p) # {}

Min(S) == CHOOSE x \in S : \A y \in S : x <= y

\* c repeated n times
Rep(c, n) == [i \in 1..n |-> c]

\* every way of writing the lower-case word w in mixed case
CaseVariants(w) ==
    {[i \in 1..Len(w) |-> IF m[i] THEN UpperChar(w[i]) ELSE w[i]] :
        m \in [1..Len(w) -> BOOLEAN]}

-----------------------------------------------------------------------------
(* Python values and outcomes of a call                                    *)

PyStr(s)  == [t |-> "str",  s |-> s,    n |-> 0, b |-> FALSE]
PyInt(n)  == [t |-> "int",  s |-> <<>>, n |-> n, b |-> FALSE]
PyBool(b) == [t |-> "bool", s |-> <<>>, n |-> 0, b |-> b]
PyNone    == [t |-> "NoneType", s |-> <<>>, n |-> 0, b |-> FALSE]

Return(v) == [kind |-> "return", exc |-> "", val |-> v]
Raise(e)  == [kind |-> "raise", exc |-> e, val |-> PyNone]
NotCalled == [kind |-> "notcalled", exc |-> "", val |-> PyNone]

-----------------------------------------------------------------------------
(* config.py: strtobool and ConfigMod.validate                             *)

TrueWords ==
    { <<"y">>, <<"y","e","s">>, <<"t">>, <<"t","r","u","e">>, <<"o","n">>, <<"1">> }
FalseWords ==
    { <<"n">>, <<"n","o">>, <<"f">>, <<"f","a","l","s","e">>, <<"o","f","f">>, <<"0">> }

\* strtobool without the lower-casing of line 23
strtobool_nolower(val) ==
    IF val \in TrueWords THEN Return(PyInt(1))
    ELSE IF val \in FalseWords THEN Return(PyInt(0))
    ELSE Raise("ValueError")

strtobool(val) ==
    LET v == Lower(val) IN
    IF v \in TrueWords THEN Return(PyInt(1))
    ELSE IF v \in FalseWords THEN Return(PyInt(0))
    ELSE Raise("ValueError")

\* str.strip()
RECURSIVE LStrip(_)
LStrip(s) == IF s # <<>> /\ Head(s) \in WhiteSpace THEN LStrip(Tail(s)) ELSE s
RECURSIVE RStrip(_)
RStrip(s) ==
    IF s # <<>> /\ s[Len(s)] \in WhiteSpace
    THEN RStrip(SubSeq(s, 1, Len(s) - 1)) ELSE s
Strip(s) == RStrip(LStrip(s))

\* the digits of an int() literal: digits with single underscores between them
IsDigitGroup(d) ==
    /\ d # <<>>
    /\ \A i \in 1..Len(d) : d[i] \in Digits \cup {"_"}
    /\ d[1] \in Digits /\ d[Len(d)] \in Digits
    /\ \A i \in 1..(Len(d) - 1) : ~(d[i] = "_" /\ d[i + 1] = "_")

DigitValue(c) == (CHOOSE i \in DOMAIN DigitSeq : DigitSeq[i] = c) - 1

RECURSIVE DigitGroupValue(_, _)
DigitGroupValue(d, acc) ==
    IF d = <<>> THEN acc
    ELSE IF Head(d) = "_" THEN DigitGroupValue(Tail(d), acc)
    ELSE DigitGroupValue(Tail(d), 10 * acc + DigitValue(Head(d)))

\* int(s) for a str s, base 10
PyIntOfStr(s) ==
    LET b == Strip(s)
        signed == b # <<>> /\ b[1] \in {"+", "-"}
        d == IF signed THEN Tail(b) ELSE b
    IN  IF IsDigitGroup(d)
        THEN Return(PyInt((IF signed /\ b[1] = "-" THEN -1 ELSE 1) * DigitGroupValue(d, 0)))
        ELSE Raise("ValueError")

\* validate trying the keywords before the integer
validate_boolfirst(attribute) ==
    IF attribute.t = "str"
    THEN LET b == strtobool(attribute.s)
             i == PyIntOfStr(attribute.s)
         IN  IF b.kind = "return" THEN Return(PyBool(b.val.n # 0))
             ELSE IF i.kind = "return" THEN i
             ELSE Return(attribute)
    ELSE Return(attribute)

validate(attribute) ==
    IF attribute.t = "str"
    THEN LET i == PyIntOfStr(attribute.s) IN
         IF i.kind = "return" THEN i
         ELSE LET b == strtobool(attribute.s) IN
              IF b.kind = "return" THEN Return(PyBool(b.val.n # 0))
              ELSE Return(attribute)
    ELSE Return(attribute)

\* the strings handed to strtobool and validate
OtherStrings ==
    { <<>>, <<"2">>, <<"1","0">>, <<"-","7">>, <<"+","3">>, <<" ","4","2"," ">>,
      <<"1","_","0">>, <<"_","1">>, <<"1","_","_","0">>, <<"0","0","7">>,
      <<"y","e","s","s">>, <<"y","e">>, <<"t","r","u">>, <<" ","y","e","s">>,
      <<"Y","E","S"," ">>, <<"m","a","y","b","e">>, <<"o">>, <<"o","f">>,
      <<"-">>, <<"1"," ","0">>, <<"t","r","u","e","1">>, <<"\n","1","\t">>,
      <<"-","0">>, <<"1",".","5">>, <<"n","o","n","e">> }

CoerceStrings ==
    UNION {CaseVariants(w) : w \in TrueWords \cup FalseWords} \cup OtherStrings

NonStrings == {PyInt(5), PyInt(0), PyInt(-2), PyBool(TRUE), PyBool(FALSE), PyNone}

CallStrtobool ==
    /\ call.fn = "strtobool" /\ result = NotCalled
    /\ result' = strtobool(call.arg.s)
    /\ UNCHANGED <<call, cfgVars, convVars>>

CallValidate ==
    /\ call.fn = "validate" /\ result = NotCalled
    /\ result' = validate(call.arg)
    /\ UNCHANGED <<call, cfgVars, convVars>>

NextCoerce == CallStrtobool \/ CallValidate

-----------------------------------------------------------------------------
(* utils.py: get_full_command                                              *)

\* str(message.text) of line 43: None becomes the text "None"
PyStrOf(v) == IF v.t = "NoneType" THEN <<"N","o","n","e">> ELSE v.s

\* s.split(maxsplit=1): <<>>, <<word>> or <<word, rest>>
SplitOnce(s) ==
    LET b == LStrip(s)
        ws == {i \in 1..Len(b) : b[i] \in WhiteSpace}
    IN  IF b = <<>> THEN <<>>
        ELSE IF ws = {} THEN <<b>>
        ELSE LET rest == LStrip(Slice(b, Min(ws), Len(b)))
                 word == Slice(b, 1, Min(ws) - 1)
             IN  IF rest = <<>> THEN <<word>> ELSE <<word, rest>>

\* the condition of lines 47-51
PrefixMatches(text, prefix) ==
    text # <<>> /\ Len(text) > Len(prefix) /\ StartsWith(text, prefix)

EmptyTriple == << <<>>, <<>>, <<>> >>

get_full_command(text0, prefixes) ==
    LET text == PyStrOf(text0)
        hits == {i \in 1..Len(prefixes) : PrefixMatches(text, prefixes[i])}
    IN  IF hits = {} THEN Return(EmptyTriple)
        ELSE LET prefix == prefixes[Min(hits)]
                 parts == SplitOnce(Slice(text, Len(prefix) + 1, Len(text)))
             IN  IF parts = <<>>
                 THEN [kind |-> "raise", exc |-> "ValueError", val |-> <<>>]
                 ELSE Return(<<prefixes[1], Lower(parts[1]),
                               IF Len(parts) > 1 THEN parts[Len(parts)] ELSE <<>> >>)

Dot == <<".">>
Bang == <<"!">>

\* the values of database key ("teagram.loader", "prefixes")
PrefixLists ==
    { <<Dot>>, <<Dot, Bang>>, <<Bang, Dot>>, <<Bang \o Bang, Bang>>,
      <<Bang, Bang \o Bang>>, <<>>, <<Dot, Bang, <<"/">> >> }

PingArgs == <<"p","i","n","g"," ","a","r","g","1"," ","a","r","g","2">>

CommandTexts ==
    { PyStr(Dot \o PingArgs), PyStr(Bang \o PingArgs), PyStr(PingArgs),
      PyStr(<<>>), PyStr(Dot), PyStr(Bang \o Bang), PyStr(<<".", " ">>),
      PyStr(<<".", " ", "x">>), PyStr(<<"!", "!", "G", "o">>),
      PyStr(<<"!", "P", "i", "N", "g", "\t", " ", "A", " ", "b", " ">>),
      PyStr(<<"/", "h", "e", "l", "p", "\n", "m", "e">>),
      PyStr(<<".", "h", "i", " ", " ">>), PyStr(<<"h", ".", "i">>),
      PyNone }

CallGetFullCommand ==
    /\ call.fn = "get_full_command" /\ result = NotCalled
    /\ result' = get_full_command(call.arg.text, call.arg.prefixes)
    /\ UNCHANGED <<call, cfgVars, convVars>>

NextCommand == CallGetFullCommand

-----------------------------------------------------------------------------
(* utils.py: paste_neko                                                    *)

\* decoded JSON values
JObject(f) == [j |-> "object", f |-> f, s |-> <<>>]
JString(s) == [j |-> "string", f |-> <<>>, s |-> s]
JArray     == [j |-> "array",  f |-> <<>>, s |-> <<>>]
JNull      == [j |-> "null",   f |-> <<>>, s |-> <<>>]

\* v[k] for a str key k: [ok, exc, v]
GetItem(v, k) ==
    IF v.j = "object"
    THEN IF k \in DOMAIN v.f
         THEN [ok |-> TRUE, exc |-> "", v |-> v.f[k]]
         ELSE [ok |-> FALSE, exc |-> "KeyError", v |-> JNull]
    ELSE [ok |-> FALSE, exc |-> "TypeError", v |-> JNull]

\* what an f-string makes of a decoded JSON scalar
Format(v) ==
    IF v.j = "string" THEN v.s
    ELSE IF v.j = "null" THEN <<"N","o","n","e">>
    ELSE IF v.j = "array" THEN <<"[","]">>
    ELSE <<"{","}">>

PastingFailed == <<"Pasting failed">>
PasteUrl(key) == <<"nekobin.com/">> \o key \o <<".py">>

\* paste.raise_for_status() raises from status 400 on
RaisesForStatus(status) == status >= 400

\* env: what the network does with the POST of lines 330-336
paste_neko(env) ==
    IF env.connect # "ok" \/ RaisesForStatus(env.status) \/ ~env.decodable
    THEN Return(PastingFailed)
    ELSE LET r == GetItem(env.json, "result")
             k == GetItem(r.v, "key")
         IN  IF ~r.ok THEN [kind |-> "raise", exc |-> r.exc, val |-> <<>>]
             ELSE IF ~k.ok THEN [kind |-> "raise", exc |-> k.exc, val |-> <<>>]
             ELSE Return(PasteUrl(Format(k.v)))

PasteKeys == { <<"a","b","c">>, <<"Q","7">> }

JsonBodies ==
    {JObject([result |-> JObject([key |-> JString(k)])]) : k \in PasteKeys}
    \cup { JObject([result |-> JObject([key |-> JNull])]),
           JObject([result |-> JObject([id |-> JString(<<"a">>)])]),
           JObject([message |-> JString(<<"e","r","r">>)]),
           JObject([result |-> JNull]),
           JObject([result |-> JString(<<"a","b","c">>)]),
           JArray, JNull }

HttpStatuses == {200, 201, 400, 404, 500, 503}

PasteEnvs ==
    [connect : {"ok", "ClientConnectorError", "TimeoutError"},
     status : HttpStatuses, decodable : BOOLEAN, json : JsonBodies]

CallPasteNeko ==
    /\ call.fn = "paste_neko" /\ result = NotCalled
    /\ result' = paste_neko(call.arg)
    /\ UNCHANGED <<call, cfgVars, convVars>>

NextPaste == CallPasteNeko

-----------------------------------------------------------------------------
(* utils.py: random_id                                                     *)

\* the lengths asked for at config.py lines 47, 100, 243 and at line 199
PendingIdLen == 50
CorrelationIdLen == 3

\* random.choice draws every character from string.ascii_letters + string.digits
IdAlphabet == Letters \cup Digits

\* the draws the model follows: two for the short ids, one for the 50-character ones
IdSeeds(length) ==
    IF length < PendingIdLen THEN { <<"a", "B">>, <<"X", "9">> } ELSE { <<"a", "B">> }

\* the ids random_id(length) is drawn from here
random_id(length) ==
    {[i \in 1..length |-> IF i % 2 = 1 THEN p[1] ELSE p[2]] : p \in IdSeeds(length)}

-----------------------------------------------------------------------------
(* config.py: the plugins ConfigMod looks at                               *)

Alpha == <<"a","l","p","h","a">>
Beta == <<"b","e","t","a">>
Help == <<"h","e","l","p">>
ConfigName == <<"c","o","n","f","i","g">>

AttrX == <<"x">>
AttrY == <<"y">>
AttrML == <<"m","_","l">>

\* references to Python objects
NoneRef == [kind |-> "None", of |-> <<>>]
FalseRef == [kind |-> "False", of |-> <<>>]
ListRef == [kind |-> "list", of |-> <<>>]
DictRef == [kind |-> "dict", of |-> <<>>]
DatabaseRef == [kind |-> "Database", of |-> <<>>]
ConfigRef(m) == [kind |-> "Config", of |-> m]
ModuleRef(m) == [kind |-> "Module", of |-> m]

\* self.manager.modules in the order of sorted(modules, key=len(str(x)))
ModuleOrder == <<Help, Beta, Alpha, ConfigName>>
ModuleNames == Range(ModuleOrder)

\* the plugins that carry a Config, and its attributes
CfgModules == {Alpha, Beta}
AttrsOf(m) == IF m = Alpha THEN {AttrX, AttrY} ELSE {AttrX, AttrML}
\* dict order of the Config's keys
AttrOrder(m) == IF m = Alpha THEN <<AttrX, AttrY>> ELSE <<AttrX, AttrML>>

\* ConfigValue.default of every attribute
DefaultOf(m, a) ==
    IF m = Alpha THEN (IF a = AttrX THEN PyInt(1) ELSE PyStr(<<"h","i">>))
    ELSE (IF a = AttrX THEN PyInt(2) ELSE PyBool(FALSE))
\* a value the owner has set instead
CustomOf(m, a) ==
    IF m = Alpha THEN (IF a = AttrX THEN PyInt(7) ELSE PyStr(<<"y","o">>))
    ELSE (IF a = AttrX THEN PyInt(8) ELSE PyBool(TRUE))

DEFAULT_ATTRS ==
    {"manager", "author", "bot", "callback_handlers", "command_handlers",
     "inline_handlers", "bot_username", "message_handlers", "name", "version",
     "watcher_handlers", "boot_time", "client", "_client", "loops"}

DunderNames == {"__class__", "__dict__", "__doc__", "__module__", "__weakref__"}

\* getmembers(module, lambda a: not isroutine(a)): <<key, value>> sorted by key
Members(module) ==
    IF module.kind = "Module" /\ module.of \in CfgModules THEN
        << <<"__class__", DictRef>>, <<"__doc__", NoneRef>>,
           <<"__module__", DictRef>>, <<"author", DictRef>>,
           <<"config", ConfigRef(module.of)>>, <<"db", DatabaseRef>>,
           <<"name", DictRef>>, <<"strings", DictRef>>, <<"version", DictRef>> >>
    ELSE IF module.kind = "Module" /\ module.of = Help THEN
        << <<"__class__", DictRef>>, <<"__doc__", NoneRef>>,
           <<"name", DictRef>>, <<"strings", DictRef>> >>
    ELSE IF module.kind = "Module" /\ module.of = ConfigName THEN
        << <<"DEFAULT_ATTRS", ListRef>>, <<"__class__", DictRef>>,
           <<"__doc__", NoneRef>>, <<"_def", FalseRef>>, <<"_dp", DictRef>>,
           <<"config", NoneRef>>, <<"name", DictRef>>,
           <<"pending", FalseRef>>, <<"strings", DictRef>> >>
    ELSE << <<"__class__", DictRef>>, <<"__doc__", NoneRef>> >>

\* lines 70-74
FilterAttrs(attrs) ==
    SelectSeq(attrs, LAMBDA kv : kv[1] \notin DunderNames /\ kv[1] \notin DEFAULT_ATTRS)

\* get_attrs(module): what it returns and what it leaves in self.config and
\* self.config_db, given what they held
get_attrs(module, cfg, cdb) ==
    LET attrs == FilterAttrs(Members(module)) IN
    IF Len(attrs) > 1
    THEN [ret |-> attrs[1][2], config |-> attrs[1][2], config_db |-> attrs[2][2]]
    ELSE [ret |-> ListRef, config |-> cfg, config_db |-> cdb]

\* Module.lookup: the module a name, or a 'mod_<name>|<id>' string, names
S_mod == <<"m","o","d">>
S_send_cfg == <<"s","e","n","d","_","c","f","g">>
S_ch_attr_ == <<"c","h","_","a","t","t","r","_">>
S_change == <<"c","h","a","n","g","e">>
S_def == <<"d","e","f">>
S_change_def == S_change \o <<"_">> \o S_def
InlineMessageId == <<"i","7">>

lookup(name) ==
    LET named == {m \in ModuleNames :
                    name = m \/ StartsWith(name, S_mod \o <<"_">> \o m \o <<"|">>)}
    IN  IF named = {} THEN NoneRef ELSE ModuleRef(CHOOSE m \in named : TRUE)

\* Config.get_default(key): KeyError without a descriptor for key
HasDescriptor(cfg, key) ==
    cfg.kind = "Config" /\ key.t = "str" /\ key.s \in AttrsOf(cfg.of)

\* truth value of a Python value
Truthy(v) ==
    \/ v.t = "str" /\ v.s # <<>>
    \/ v.t = "int" /\ v.n # 0
    \/ v.t = "bool" /\ v.b

\* s.replace(old, "")
RECURSIVE Remove(_, _)
Remove(s, old) ==
    IF Len(s) < Len(old) \/ old = <<>> THEN s
    ELSE IF StartsWith(s, old) THEN Remove(Slice(s, Len(old) + 1, Len(s)), old)
    ELSE <<Head(s)>> \o Remove(Tail(s), old)

\* s.split(sep) for a one-character sep
RECURSIVE Split(_, _)
Split(s, sep) ==
    LET at == {i \in 1..Len(s) : s[i] = sep} IN
    IF at = {} THEN <<s>>
    ELSE <<Slice(s, 1, Min(at) - 1)>> \o Split(Slice(s, Min(at) + 1, Len(s)), sep)

\* name.split(".")[-1]
LastDotted(name) == LET parts == Split(name, ".") IN parts[Len(parts)]

-----------------------------------------------------------------------------
(* config.py: ConfigMod                                                    *)

Users == {"owner", "stranger"}
NoUser == "None"

NoEntry == [cfg |-> NoneRef, attr |-> <<>>, mod |-> NoneRef]
NoCall == [handler |-> "", user |-> NoUser, answer |-> "", raised |-> ""]
Handled(h, u, d, a, r) ==
    [handler |-> h, user |-> u, answer |-> a, raised |-> r]

\* the keys of the settings store, and those that name an attribute of a Config
StoreKeys == CfgModules \X {AttrX, AttrY, AttrML}
CfgPairs == {k \in StoreKeys : k[2] \in AttrsOf(k[1])}

\* the attributes the owner has changed from their defaults before the run
CustomisedSets == { {}, CfgPairs, {<<Alpha, AttrY>>, <<Beta, AttrX>>} }

CorrelationIds == {Lower(r) : r \in random_id(CorrelationIdLen)}

\* __init__ of lines 36-54, with the plugins as the owner left them
InitConfig ==
    /\ me = NoUser
    /\ pending = PyBool(FALSE)
    /\ pending_id \in random_id(PendingIdLen)
    /\ pending_module = FalseRef
    /\ config = NoneRef
    /\ config_db = [kind |-> "unset", of |-> <<>>]
    /\ bot_cfg = [i \in CorrelationIds |-> NoEntry]
    /\ values \in {[m \in CfgModules |-> [a \in AttrsOf(m) |->
                        IF <<m, a>> \in c THEN CustomOf(m, a) ELSE DefaultOf(m, a)]] :
                    c \in CustomisedSets}
    /\ store = [k \in StoreKeys |->
                  IF k \in CfgPairs /\ values[k[1]][k[2]] # DefaultOf(k[1], k[2])
                  THEN values[k[1]][k[2]] ELSE PyNone]
    /\ buttons = {}
    /\ last = NoCall

cfgState == <<me, pending, pending_id, pending_module, config, config_db,
              bot_cfg, values, store, buttons>>

\* the loop of lines 105-122: what it leaves in self.config, self.config_db
\* and on the keyboard
RECURSIVE ListModules(_, _, _, _)
ListModules(i, cfg, cdb, btns) ==
    IF i > Len(ModuleOrder)
    THEN [config |-> cfg, config_db |-> cdb, buttons |-> btns]
    ELSE LET name == ModuleOrder[i]
             g == get_attrs(lookup(name), cfg, cdb)
             skip == g.ret.kind # "Config" \/ Contains(Lower(name), ConfigName)
         IN  ListModules(i + 1, g.config, g.config_db,
                 IF skip THEN btns
                 ELSE btns \cup {S_mod \o <<"_">> \o name \o <<"|">> \o InlineMessageId})

\* the owner's branch of config_callback_handler, lines 89-132
SendCfgOwner(user, data, rid) ==
    LET loop == ListModules(1, config, config_db, {}) IN
    /\ IF Truthy(pending)
       THEN pending' = PyBool(FALSE) /\ pending_id' = rid /\ pending_module' = FalseRef
       ELSE UNCHANGED <<pending, pending_id, pending_module>>
    /\ config' = loop.config
    /\ config_db' = loop.config_db
    /\ buttons' = buttons \cup loop.buttons
    /\ last' = Handled("config_callback_handler", user, data, "", "")
    /\ UNCHANGED <<me, bot_cfg, values, store>>

\* a handler's rejection of a callback that is not the owner's
NoOwner(handler, user, data) ==
    /\ last' = Handled(handler, user, data, "noowner", "")
    /\ UNCHANGED cfgState

\* config_callback_handler with the check of lines 86-87 left out
config_callback_handler_nocheck(user, data) ==
    /\ data = S_send_cfg
    /\ \E rid \in random_id(PendingIdLen) : SendCfgOwner(user, data, rid)
    /\ UNCHANGED <<pureVars, convVars>>

config_callback_handler(user, data) ==
    /\ data = S_send_cfg
    /\ IF user # me
       THEN NoOwner("config_callback_handler", user, data)
       ELSE \E rid \in random_id(PendingIdLen) : SendCfgOwner(user, data, rid)
    /\ UNCHANGED <<pureVars, convVars>>

\* answer_callback_handler, lines 134-180
answer_callback_handler(user, data) ==
    /\ StartsWith(data, S_mod)
    /\ IF user # me
       THEN NoOwner("answer_callback_handler", user, data)
       ELSE LET mod == lookup(data)
                g == get_attrs(mod, config, config_db)
            IN  /\ config' = g.config
                /\ config_db' = g.config_db
                /\ IF g.ret.kind = "Config"
                   THEN /\ buttons' = buttons
                            \cup {S_ch_attr_ \o LastDotted(mod.of) \o <<"_">> \o name :
                                    name \in Range(AttrOrder(g.ret.of))}
                            \cup {S_send_cfg}
                        /\ last' = Handled("answer_callback_handler", user, data, "", "")
                   ELSE /\ UNCHANGED buttons
                        /\ last' = Handled("answer_callback_handler", user, data, "",
                                           "AttributeError")
                /\ UNCHANGED <<me, pending, pending_id, pending_module,
                               bot_cfg, values, store>>
    /\ UNCHANGED <<pureVars, convVars>>

\* change_attribute_callback_handler, lines 182-226
change_attribute_callback_handler(user, data) ==
    /\ StartsWith(data, S_ch_attr_)
    /\ IF user # me
       THEN NoOwner("change_attribute_callback_handler", user, data)
       ELSE LET parts == Split(Remove(data, S_ch_attr_), "_")
                module == lookup(parts[1])
                g == get_attrs(module, config, config_db)
                raised ==
                    IF Len(parts) < 2 THEN "IndexError"
                    ELSE IF g.ret.kind # "Config" THEN "AttributeError"
                    ELSE IF ~HasDescriptor(g.config, PyStr(parts[2])) THEN "KeyError"
                    ELSE ""
            IN  IF raised # ""
                THEN /\ IF Len(parts) < 2
                        THEN UNCHANGED <<config, config_db>>
                        ELSE config' = g.config /\ config_db' = g.config_db
                     /\ last' = Handled("change_attribute_callback_handler",
                                        user, data, "", raised)
                     /\ UNCHANGED <<me, pending, pending_id, pending_module,
                                    bot_cfg, values, store, buttons>>
                ELSE \E rid \in random_id(CorrelationIdLen) :
                     /\ config' = g.config
                     /\ config_db' = g.config_db
                     /\ pending' = PyStr(parts[2])
                     /\ pending_module' = module
                     /\ pending_id' = Lower(rid)
                     /\ bot_cfg' = [bot_cfg EXCEPT ![Lower(rid)] =
                            [cfg |-> g.config, attr |-> parts[2], mod |-> module]]
                     /\ buttons' = buttons \cup {S_change_def, S_send_cfg}
                     /\ last' = Handled("change_attribute_callback_handler",
                                        user, data, "", "")
                     /\ UNCHANGED <<me, values, store>>
    /\ UNCHANGED <<pureVars, convVars>>

\* the config the default is read from and written to, line 234: self.config
DefaultSource == config

\* _change_callback_handler, lines 228-246
change_callback_handler(user, data) ==
    /\ StartsWith(data, S_change)
    /\ IF user # me
       THEN NoOwner("_change_callback_handler", user, data)
       ELSE IF ~Contains(data, S_def)
       THEN /\ last' = Handled("_change_callback_handler", user, data, "", "")
            /\ UNCHANGED cfgState
       ELSE LET cfg == DefaultSource IN
            IF cfg.kind # "Config"
            THEN /\ last' = Handled("_change_callback_handler", user, data, "",
                                    "AttributeError")
                 /\ UNCHANGED cfgState
            ELSE IF ~HasDescriptor(cfg, pending)
            THEN /\ last' = Handled("_change_callback_handler", user, data, "",
                                    "KeyError")
                 /\ UNCHANGED cfgState
            ELSE \E rid \in random_id(PendingIdLen) :
                 LET attr == DefaultOf(cfg.of, pending.s) IN
                 /\ values' = [values EXCEPT ![cfg.of][pending.s] = attr]
                 /\ store' = [store EXCEPT ![<<pending_module.of, pending.s>>] = attr]
                 /\ pending' = PyBool(FALSE)
                 /\ pending_id' = rid
                 /\ pending_module' = FalseRef
                 /\ last' = Handled("_change_callback_handler", user, data, "chdef", "")
                 /\ UNCHANGED <<me, config, config_db, bot_cfg, buttons>>
    /\ UNCHANGED <<pureVars, convVars>>

\* config_cmd, lines 266-280, with the inline result of set_cfg it clicks
config_cmd ==
    /\ me' = "owner"
    /\ buttons' = buttons \cup {S_send_cfg}
    /\ UNCHANGED <<pending, pending_id, pending_module, config, config_db,
                   bot_cfg, values, store, last>>
    /\ UNCHANGED <<pureVars, convVars>>

Next ==
    \/ config_cmd
    \/ \E user \in Users, data \in buttons : config_callback_handler(user, data)
    \/ \E user \in Users, data \in buttons : answer_callback_handler(user, data)
    \/ \E user \in Users, data \in buttons :
            change_attribute_callback_handler(user, data)
    \/ \E user \in Users, data \in buttons : change_callback_handler(user, data)

PureIdle == call = [fn |-> "", arg |-> PyNone] /\ result = NotCalled

CfgIdle ==
    /\ me = NoUser /\ pending = PyBool(FALSE) /\ pending_id = <<>>
    /\ pending_module = FalseRef /\ config = NoneRef /\ config_db = NoneRef
    /\ bot_cfg = <<>> /\ values = <<>> /\ store = <<>> /\ buttons = {}
    /\ last = NoCall

-----------------------------------------------------------------------------
(* token_manager.py: the regular expressions                               *)

S_code_open == <<"<","c","o","d","e",">">>
S_code_close == <<"<","/","c","o","d","e",">">>

SecretLen == 35
TokenChars == Digits \cup Letters \cup {"_", "-"}

NoMatch == [found |-> FALSE, group |-> <<>>]
Match(g) == [found |-> TRUE, group |-> g]

\* re.search(r"(?<=<code>)(.*?)(?=</code>)", text): the leftmost place that
\* follows "<code>" and reaches a "</code>" without a line break, up to
\* the nearest such "</code>"
CodeSearch(text) ==
    LET ends(i) == {j \in i..(Len(text) + 1) :
                      /\ j \in Occurrences(text, S_code_close)
                      /\ \A k \in i..(j - 1) : text[k] # "\n"}
        starts == {i \in 1..(Len(text) + 1) :
                      /\ (i - Len(S_code_open)) \in Occurrences(text, S_code_open)
                      /\ ends(i) # {}}
    IN  IF starts = {} THEN NoMatch
        ELSE Match(Slice(text, Min(starts), Min(ends(Min(starts))) - 1))

\* re.search(r"\d{1,}:[0-9a-zA-Z_-]{35}", text)
BareSearch(text) ==
    LET fits(i, k) ==
            /\ i + k + SecretLen <= Len(text)
            /\ \A d \in i..(i + k - 1) : text[d] \in Digits
            /\ text[i + k] = ":"
            /\ \A c \in (i + k + 1)..(i + k + SecretLen) : text[c] \in TokenChars
        starts == {i \in 1..Len(text) : \E k \in 1..Len(text) : fits(i, k)}
    IN  IF starts = {} THEN NoMatch
        ELSE LET i == Min(starts)
                 k == CHOOSE k \in 1..Len(text) : fits(i, k)
             IN  Match(Slice(text, i, i + k + SecretLen))

\* lines 60-64 with the two expressions tried in the other order
ScrapeToken_barefirst(text) ==
    IF BareSearch(text).found THEN BareSearch(text) ELSE CodeSearch(text)

\* lines 60-64: the tagged expression, then the bare one
ScrapeToken(text) ==
    IF CodeSearch(text).found THEN CodeSearch(text) ELSE BareSearch(text)

-----------------------------------------------------------------------------
(* token_manager.py: the conversation with @BotFather                      *)

Text(s) == [kind |-> "text", body |-> s]
Photo(path) == [kind |-> "photo", body |-> path]

\* a message of @BotFather: its text and its button grid (NoMarkup: none)
NoMarkup == [present |-> FALSE, rows |-> <<>>]
Markup(rows) == [present |-> TRUE, rows |-> rows]
Reply(text, markup) == [text |-> text, reply_markup |-> markup]
NoResponse == Reply(<<>>, NoMarkup)

S_cancel == <<"/","c","a","n","c","e","l">>
S_newbot == <<"/","n","e","w","b","o","t">>
S_revoke == <<"/","r","e","v","o","k","e">>
S_setuserpic == <<"/","s","e","t","u","s","e","r","p","i","c">>
S_setinline == <<"/","s","e","t","i","n","l","i","n","e">>
S_teagram_command == <<"t","e","a","g","r","a","m","-","c","o","m","m","a","n","d">>
S_avatar == <<"a","s","s","e","t","s","/","b","o","t","_","a","v","a","t","a","r",".","p","n","g">>
S_teagram_ == <<"t","e","a","g","r","a","m","_">>
S__bot == <<"_","b","o","t">>
S_name_of == <<"T","e","a","g","r","a","m"," ","U","s","e","r","B","o","t"," ","o","f"," ">>
S_cannot == <<"T","h","a","t"," ","I"," ","c","a","n","n","o","t"," ","d","o",".">>
S_sorry == <<"S","o","r","r","y">>
S_too_many == <<"t","o","o"," ","m","a","n","y"," ","a","t","t","e","m","p","t","s">>

NameLimit == 45
UsernameIdLen == 6

\* get_display_name(self._manager.me) of the accounts followed
DisplayNames == { <<"A","n","n">>, Rep("z", NameLimit + 2) }

\* line 50
BotDisplayName(name) ==
    S_name_of \o Slice(name, 1, IF Len(name) < NameLimit THEN Len(name) ELSE NameLimit)

\* line 53
BotUsername(rid) == S_teagram_ \o rid \o S__bot

\* the messages of _create_bot in the order of lines 30-84
CreateScript(name, username) ==
    << Text(S_cancel), Text(S_newbot), Text(BotDisplayName(name)), Text(username),
       Text(S_setuserpic), Text(<<"@">> \o username), Photo(S_avatar),
       Text(S_setinline), Text(<<"@">> \o username), Text(S_teagram_command) >>

Secret == Rep("A", SecretLen - 3) \o <<"b","_","-">>
BareToken == <<"1","2","3","4","5","6",":">> \o Secret

\* what @BotFather may answer to /newbot
NewbotReplies ==
    { <<"A","l","r","i","g","h","t",","," ","a"," ","n","e","w"," ","b","o","t",".">>,
      <<"S","o","r","r","y",","," ","t","o","o"," ","m","a","n","y"," ","a","t","t","e","m","p","t","s","."," ","P","l","e","a","s","e"," ","t","r","y"," ","a","g","a","i","n"," ","i","n"," ","8"," ","s","e","c","o","n","d","s">>,
      <<"T","h","a","t"," ","I"," ","c","a","n","n","o","t"," ","d","o",".">>,
      <<"S","o","r","r","y",","," ","t","r","y"," ","l","a","t","e","r">> }

\* what @BotFather may answer to the username
R_tagged == <<"D","o","n","e","!"," ">> \o S_code_open \o BareToken \o S_code_close \o <<" ","K","e","e","p"," ","i","t">>
R_bare == <<"U","s","e"," ","t","h","i","s"," ","t","o","k","e","n",":"," ">> \o BareToken \o <<" ","e","n","d">>
R_taken == <<"S","o","r","r","y",","," ","t","h","i","s"," ","u","s","e","r","n","a","m","e"," ","i","s"," ","a","l","r","e","a","d","y"," ","t","a","k","e","n",".">>
R_both == S_code_open \o <<"h","e","l","l","o">> \o S_code_close \o <<" ">> \o BareToken
R_short == <<"7",":">> \o Rep("A", SecretLen - 1) \o <<" ">>
R_newline == S_code_open \o <<"a","\n","b">> \o S_code_close \o <<" ","9","9",":">> \o Secret \o <<"x","y","z">>
R_empty == S_code_open \o S_code_close
R_twice == S_code_open \o <<"x">> \o S_code_close \o <<"y">> \o S_code_close

UsernameReplies ==
    {R_tagged, R_bare, R_taken, R_both, R_short, R_newline, R_empty, R_twice}

OkReply == Reply(<<"O","K">>, NoMarkup)

\* @BotFather's answer to the i-th message of _create_bot
CreateReplies(i) ==
    IF i = 2 THEN {Reply(t, NoMarkup) : t \in NewbotReplies}
    ELSE IF i = 4 THEN {Reply(t, NoMarkup) : t \in UsernameReplies}
    ELSE {OkReply}

NoneValue == [t |-> "NoneType", s |-> <<>>]
StrValue(s) == [t |-> "str", s |-> s]
FalseValue == [t |-> "bool", s |-> <<>>]
NotReturned == [t |-> "running", s |-> <<>>]

InitCreate ==
    /\ op = "create_bot"
    /\ step = 1 /\ phase = "ask"
    /\ sent = <<>> /\ inbox = <<>> /\ received = <<>> /\ owed = 0 /\ extra = 0
    /\ response = NoResponse
    /\ blocked \in BOOLEAN
    /\ display_name \in DisplayNames
    /\ bot_username = <<>>
    /\ token = <<>>
    /\ ret = NotReturned
    /\ log = <<>>
    /\ PureIdle /\ CfgIdle

\* conv.ask / conv.ask_media of the step reached; the first one, lines 29-32,
\* fails with UserIsBlockedError on a blocked peer and unblocks it
CreateAsk ==
    /\ op = "create_bot" /\ phase = "ask"
    /\ \E rid \in random_id(UsernameIdLen) :
        LET username == IF step = 4 THEN BotUsername(rid) ELSE bot_username
            msg == CreateScript(display_name, username)[step]
        IN  /\ bot_username' = username
            /\ IF step = 1 /\ blocked
               THEN /\ blocked' = FALSE
                    /\ UNCHANGED <<sent, owed>>
               ELSE /\ sent' = Append(sent, msg)
                    /\ owed' = owed + 1
                    /\ UNCHANGED blocked
    /\ phase' = "wait"
    /\ UNCHANGED <<op, step, inbox, received, response, display_name, token, ret, log, extra>>
    /\ UNCHANGED <<pureVars, cfgVars>>

\* @BotFather answers a message delivered to it
BotFatherAnswersCreate ==
    /\ op = "create_bot" /\ owed > 0
    /\ \E r \in CreateReplies(Len(sent)) : inbox' = Append(inbox, r)
    /\ owed' = owed - 1
    /\ UNCHANGED <<op, step, phase, sent, received, response, blocked, display_name,
                   bot_username, token, ret, log, extra>>
    /\ UNCHANGED <<pureVars, cfgVars>>

\* what lines 39-48 log about the answer to /newbot
NewbotLog(text) ==
    IF Contains(text, S_cannot) \/ Contains(text, S_sorry)
    THEN <<"error", "error">> \o (IF Contains(text, S_too_many) THEN <<"error">> ELSE <<>>)
    ELSE <<>>

\* _create_bot stopping at a rejected /newbot
CreateGetResponse_abort ==
    /\ op = "create_bot" /\ phase = "wait" /\ inbox # <<>>
    /\ response' = Head(inbox)
    /\ inbox' = Tail(inbox)
    /\ received' = Append(received, Head(inbox))
    /\ IF step = 2 /\ NewbotLog(Head(inbox).text) # <<>>
       THEN /\ log' = log \o NewbotLog(Head(inbox).text)
            /\ ret' = NoneValue /\ phase' = "done"
            /\ UNCHANGED <<step, token>>
       ELSE IF step = 4
       THEN LET search == ScrapeToken(Head(inbox).text) IN
            IF ~search.found
            THEN /\ log' = log \o <<"error", "error">>
                 /\ ret' = NoneValue /\ phase' = "done"
                 /\ UNCHANGED <<step, token>>
            ELSE /\ token' = search.group
                 /\ step' = step + 1 /\ phase' = "ask"
                 /\ UNCHANGED <<ret, log>>
       ELSE IF step = Len(CreateScript(display_name, bot_username))
       THEN /\ log' = Append(log, "success")
            /\ ret' = StrValue(token) /\ phase' = "done"
            /\ UNCHANGED <<step, token>>
       ELSE /\ step' = step + 1 /\ phase' = "ask"
            /\ UNCHANGED <<token, ret, log>>
    /\ UNCHANGED <<op, sent, owed, blocked, display_name, bot_username, extra>>
    /\ UNCHANGED <<pureVars, cfgVars>>

\* conv.get_response() of the step reached and what follows it up to the next
\* conv.ask: lines 37-48 after /newbot, lines 58-68 after the username,
\* lines 85-88 after the last message
CreateGetResponse ==
    /\ op = "create_bot" /\ phase = "wait" /\ inbox # <<>>
    /\ response' = Head(inbox)
    /\ inbox' = Tail(inbox)
    /\ received' = Append(received, Head(inbox))
    /\ IF step = 2
       THEN /\ log' = log \o NewbotLog(Head(inbox).text)
            /\ step' = step + 1 /\ phase' = "ask"
            /\ UNCHANGED <<token, ret>>
       ELSE IF step = 4
       THEN LET search == ScrapeToken(Head(inbox).text) IN
            IF ~search.found
            THEN /\ log' = log \o <<"error", "error">>
                 /\ ret' = NoneValue /\ phase' = "done"
                 /\ UNCHANGED <<step, token>>
            ELSE /\ token' = search.group
                 /\ step' = step + 1 /\ phase' = "ask"
                 /\ UNCHANGED <<ret, log>>
       ELSE IF step = Len(CreateScript(display_name, bot_username))
       THEN /\ log' = Append(log, "success")
            /\ ret' = StrValue(token) /\ phase' = "done"
            /\ UNCHANGED <<step, token>>
       ELSE /\ step' = step + 1 /\ phase' = "ask"
            /\ UNCHANGED <<token, ret, log>>
    /\ UNCHANGED <<op, sent, owed, blocked, display_name, bot_username, extra>>
    /\ UNCHANGED <<pureVars, cfgVars>>

NextCreate == CreateAsk \/ BotFatherAnswersCreate \/ CreateGetResponse

ConvIdle ==
    /\ op = "" /\ step = 0 /\ phase = "" /\ sent = <<>> /\ inbox = <<>>
    /\ received = <<>> /\ owed = 0 /\ response = NoResponse /\ blocked = FALSE
    /\ display_name = <<>> /\ bot_username = <<>> /\ token = <<>>
    /\ ret = NotReturned /\ log = <<>> /\ extra = 0

-----------------------------------------------------------------------------
(* token_manager.py: _revoke_token                                         *)

S_at_teagram_ == <<"@">> \o S_teagram_

\* re.search(r"@teagram_[0-9a-zA-Z]{6}_bot", label) finds something
ButtonMatches(label) ==
    \E i \in Occurrences(label, S_at_teagram_) :
        LET a == i + Len(S_at_teagram_) IN
        /\ a + UsernameIdLen + Len(S__bot) - 1 <= Len(label)
        /\ \A c \in a..(a + UsernameIdLen - 1) : label[c] \in IdAlphabet
        /\ SubSeq(label, a + UsernameIdLen, a + UsernameIdLen + Len(S__bot) - 1) = S__bot

\* text.split()[-1]: [ok, word]
LastWord(text) ==
    LET b == RStrip(text)
        ws == {i \in 1..Len(b) : b[i] \in WhiteSpace}
    IN  IF b = <<>> THEN [ok |-> FALSE, word |-> <<>>]
        ELSE IF ws = {} THEN [ok |-> TRUE, word |-> b]
        ELSE [ok |-> TRUE,
              word |-> Slice(b, (CHOOSE i \in ws : \A j \in ws : j <= i) + 1, Len(b))]

\* the loop of lines 116-130 over the rows of a button grid: whether it returns
\* False, and the label it sends otherwise (none when it ends without a match)
ScanGrid(rows) ==
    IF rows = <<>> THEN [returns |-> FALSE, found |-> FALSE, label |-> <<>>]
    ELSE LET row == rows[1]
             hits == {c \in 1..Len(row) : ButtonMatches(row[c])}
         IN  IF hits = {} THEN [returns |-> TRUE, found |-> FALSE, label |-> <<>>]
             ELSE [returns |-> FALSE, found |-> TRUE, label |-> row[Min(hits)]]

B_match1 == <<"@","t","e","a","g","r","a","m","_","a","B","a","B","a","B","_","b","o","t">>
B_match2 == <<"@","t","e","a","g","r","a","m","_","X","9","X","9","X","9","_","b","o","t">>
B_other == <<"@","o","t","h","e","r","_","b","o","t">>
B_short == <<"@","t","e","a","g","r","a","m","_","a","b","c","_","b","o","t">>
B_inside == <<"m","y"," ","@","t","e","a","g","r","a","m","_","0","0","0","0","0","0","_","b","o","t","t","y">>

\* the button grids @BotFather may attach to its answer to /revoke
Grids ==
    { <<>>,
      << <<B_match1>> >>,
      << <<B_other>>, <<B_match1>> >>,
      << <<B_other, B_match2, B_match1>> >>,
      << <<B_other>> >>,
      << <<>>, <<B_match2>> >>,
      << <<B_short, B_inside>>, <<B_match1>> >>,
      << <<B_other, B_short>>, <<B_other>> >> }

T_choose == <<"C","h","o","o","s","e"," ","a"," ","b","o","t">>
T_nobots == <<"N","o"," ","b","o","t","s"," ","y","e","t","."," ","U","s","e"," ","/","n","e","w","b","o","t"," ","f","i","r","s","t">>

\* what @BotFather may answer to the button label
TokenReplies ==
    { <<"N","e","w"," ","t","o","k","e","n",":"," ">> \o BareToken \o <<" ","k","e","e","p"," ","i","t">>,
      <<"T","o","k","e","n"," ","r","e","v","o","k","e","d",":"," ","a","b","c"," ">>,
      <<"w","o","r","d">>,
      <<" ">> }

\* @BotFather's answer to the i-th message of _revoke_token
RevokeReplies(i) ==
    IF i = 2 THEN {Reply(T_choose, NoMarkup), Reply(T_nobots, NoMarkup)}
                  \cup {Reply(T_choose, Markup(g)) : g \in Grids}
    ELSE IF i = 3 THEN {Reply(t, NoMarkup) : t \in TokenReplies}
    ELSE {OkReply}

\* a message @BotFather may send without having been asked
FollowUps ==
    { Reply(T_choose, Markup(<< <<B_match2>> >>)),
      Reply(T_choose, Markup(<<>>)),
      Reply(<<"9",":">> \o Secret, NoMarkup),
      Reply(<<"P","i","c","k"," ","o","n","e">>, NoMarkup) }

MaxFollowUps == 1

RaisedValue(exc) == [t |-> exc, s |-> <<>>]

InitRevoke ==
    /\ op = "revoke_token"
    /\ step = 1 /\ phase = "ask"
    /\ sent = <<>> /\ inbox = <<>> /\ received = <<>> /\ owed = 0 /\ extra = 0
    /\ response = NoResponse
    /\ blocked \in BOOLEAN
    /\ display_name = <<>>
    /\ bot_username = <<>>
    /\ token = <<>>
    /\ ret = NotReturned
    /\ log = <<>>
    /\ PureIdle /\ CfgIdle

\* the message conv.ask sends at the step reached: lines 99, 105, 123
RevokeMessage(i) ==
    IF i = 1 THEN Text(S_cancel) ELSE IF i = 2 THEN Text(S_revoke) ELSE Text(bot_username)

RevokeAsk ==
    /\ op = "revoke_token" /\ phase = "ask"
    /\ IF step = 1 /\ blocked
       THEN /\ blocked' = FALSE
            /\ UNCHANGED <<sent, owed>>
       ELSE /\ sent' = Append(sent, RevokeMessage(step))
            /\ owed' = owed + 1
            /\ UNCHANGED blocked
    /\ phase' = "wait"
    /\ UNCHANGED <<op, step, inbox, received, response, display_name,
                   bot_username, token, ret, log, extra>>
    /\ UNCHANGED <<pureVars, cfgVars>>

\* @BotFather answers a message delivered to it
BotFatherAnswersRevoke ==
    /\ op = "revoke_token" /\ owed > 0
    /\ \E r \in RevokeReplies(Len(sent)) : inbox' = Append(inbox, r)
    /\ owed' = owed - 1
    /\ UNCHANGED <<op, step, phase, sent, received, response, blocked, display_name,
                   bot_username, token, ret, log, extra>>
    /\ UNCHANGED <<pureVars, cfgVars>>

\* @BotFather sends one more message after its answer to /revoke
BotFatherFollowsUp ==
    /\ op = "revoke_token" /\ owed = 0 /\ Len(sent) >= 2 /\ phase # "done"
    /\ extra < MaxFollowUps
    /\ \E r \in FollowUps : inbox' = Append(inbox, r)
    /\ extra' = extra + 1
    /\ UNCHANGED <<op, step, phase, sent, owed, received, response, blocked,
                   display_name, bot_username, token, ret, log>>
    /\ UNCHANGED <<pureVars, cfgVars>>

\* lines 116-130 on the grid of the response r
RevokeScan(r) ==
    IF ~r.reply_markup.present
    THEN /\ ret' = RaisedValue("AttributeError") /\ phase' = "done"
         /\ UNCHANGED <<step, bot_username>>
    ELSE LET scan == ScanGrid(r.reply_markup.rows) IN
         IF scan.returns
         THEN /\ ret' = FalseValue /\ phase' = "done"
              /\ UNCHANGED <<step, bot_username>>
         ELSE IF scan.found
         THEN /\ bot_username' = scan.label
              /\ step' = 3 /\ phase' = "ask"
              /\ UNCHANGED ret
         ELSE /\ step' = 3 /\ phase' = "wait"
              /\ UNCHANGED <<ret, bot_username>>

\* conv.get_response() of the step reached and what follows it up to the next
\* await: line 103; lines 106-130; lines 114-130; lines 133-140
RevokeGetResponse ==
    /\ op = "revoke_token" /\ phase \in {"wait", "wait_markup"} /\ inbox # <<>>
    /\ response' = Head(inbox)
    /\ inbox' = Tail(inbox)
    /\ received' = Append(received, Head(inbox))
    /\ LET r == Head(inbox) IN
       IF step = 1
       THEN /\ step' = 2 /\ phase' = "ask"
            /\ UNCHANGED <<ret, log, token, bot_username>>
       ELSE IF step = 2 /\ phase = "wait"
       THEN IF Contains(r.text, S_newbot)
            THEN /\ log' = Append(log, "error")
                 /\ ret' = NoneValue /\ phase' = "done"
                 /\ UNCHANGED <<step, token, bot_username>>
            ELSE IF ~r.reply_markup.present
            THEN /\ log' = Append(log, "warning")
                 /\ phase' = "wait_markup"
                 /\ UNCHANGED <<step, ret, token, bot_username>>
            ELSE RevokeScan(r) /\ UNCHANGED <<log, token>>
       ELSE IF step = 2
       THEN RevokeScan(r) /\ UNCHANGED <<log, token>>
       ELSE LET search == BareSearch(r.text) IN
            /\ IF search.found
               THEN ret' = StrValue(search.group) /\ token' = search.group
               ELSE IF LastWord(r.text).ok
               THEN ret' = StrValue(LastWord(r.text).word)
                    /\ token' = LastWord(r.text).word
               ELSE ret' = RaisedValue("IndexError") /\ UNCHANGED token
            /\ phase' = "done"
            /\ UNCHANGED <<step, log, bot_username>>
    /\ UNCHANGED <<op, sent, owed, blocked, display_name, extra>>
    /\ UNCHANGED <<pureVars, cfgVars>>

NextRevoke ==
    RevokeAsk \/ BotFatherAnswersRevoke \/ BotFatherFollowsUp \/ RevokeGetResponse

-----------------------------------------------------------------------------
(* Specifications                                                          *)

Init == InitConfig /\ PureIdle /\ ConvIdle
Spec == Init /\ [][Next]_vars

InitCoerce ==
    /\ call \in [fn : {"strtobool"}, arg : {PyStr(s) : s \in CoerceStrings}]
            \cup [fn : {"validate"},
                  arg : {PyStr(s) : s \in CoerceStrings} \cup NonStrings]
    /\ result = NotCalled
    /\ CfgIdle /\ ConvIdle
SpecCoerce == InitCoerce /\ [][NextCoerce]_vars

InitCommand ==
    /\ call \in [fn : {"get_full_command"},
                 arg : [text : CommandTexts, prefixes : PrefixLists]]
    /\ result = NotCalled
    /\ CfgIdle /\ ConvIdle
SpecCommand == InitCommand /\ [][NextCommand]_vars

InitPaste ==
    /\ call \in [fn : {"paste_neko"}, arg : PasteEnvs]
    /\ result = NotCalled
    /\ CfgIdle /\ ConvIdle
SpecPaste == InitPaste /\ [][NextPaste]_vars

SpecCreate == InitCreate /\ [][NextCreate]_vars

SpecRevoke == InitRevoke /\ [][NextRevoke]_vars

\* either conversation with @BotFather, run to its end: the event loop keeps
\* resuming the coroutine whenever it can go on, and @BotFather answers every
\* message delivered to it
InitConversation == InitCreate \/ InitRevoke
NextConversation == NextCreate \/ NextRevoke
SpecConversation ==
    /\ InitConversation /\ [][NextConversation]_vars
    /\ WF_vars(CreateAsk) /\ WF_vars(CreateGetResponse) /\ WF_vars(BotFatherAnswersCreate)
    /\ WF_vars(RevokeAsk) /\ WF_vars(RevokeGetResponse) /\ WF_vars(BotFatherAnswersRevoke)

-----------------------------------------------------------------------------
(* Properties                                                              *)

\* a callback of user with this data, whichever handler takes it
Callback(user, data) ==
    \/ config_callback_handler(user, data)
    \/ answer_callback_handler(user, data)
    \/ change_attribute_callback_handler(user, data)
    \/ change_callback_handler(user, data)

\* C1: a callback from a user who is not the recorded owner is answered with
\* 'noowner' by whichever of the four handlers takes it, and leaves the pending
\* edit, the bot's pending-edit map, the live configs and the store as they were.
C1_NonOwnerRejected ==
    [][\A user \in Users : \A data \in buttons :
        (user # me /\ Callback(user, data)) =>
            /\ last'.answer = "noowner" /\ last'.user = user /\ last'.raised = ""
            /\ UNCHANGED <<pending, pending_id, pending_module, bot_cfg, values, store>>
      ]_vars

\* a stranger pressed the reset-to-default button while an edit was pending
C1_Witness ==
    /\ me = "owner" /\ last.user = "stranger" /\ last.answer = "noowner"
    /\ last.handler = "_change_callback_handler"
    /\ Truthy(pending)
    /\ values[Alpha][AttrX] # DefaultOf(Alpha, AttrX)

\* C2: with an edit pending for attribute a of module M, the owner's change_def
\* writes the default M's own descriptor gives for a to a in M's live config and
\* to the store under (M.name, a), clears the pending edit, and writes no other
\* module's config and no other store key.
C2_DefaultOfPendingModule ==
    [][(/\ me = "owner" /\ Truthy(pending) /\ pending_module.kind = "Module"
        /\ change_callback_handler("owner", S_change_def)) =>
            LET M == pending_module.of
                a == pending.s
            IN  /\ values' = [values EXCEPT ![M][a] = DefaultOf(M, a)]
                /\ store' = [store EXCEPT ![<<M, a>>] = DefaultOf(M, a)]
                /\ pending' = PyBool(FALSE) /\ pending_module' = FalseRef
      ]_vars

\* C3: the owner's ch_attr_* callback replaces the pending edit by the one picked,
\* and after the owner's change_def or send_cfg the pending attribute and module
\* are both False and the pending id is a 50-character id.
C3_PendingEditCleared ==
    [][\A data \in buttons :
        /\ (me = "owner" /\ last'.raised = ""
              /\ change_attribute_callback_handler("owner", data)) =>
                /\ pending'.t = "str" /\ pending_module'.kind = "Module"
                /\ Len(pending_id') = CorrelationIdLen
                /\ bot_cfg'[pending_id'].attr = pending'.s
                /\ bot_cfg'[pending_id'].mod = pending_module'
        /\ (me = "owner" /\ data \in {S_change_def, S_send_cfg}
              /\ (change_callback_handler("owner", data)
                    \/ config_callback_handler("owner", data))) =>
                /\ pending' = PyBool(FALSE) /\ pending_module' = FalseRef
                /\ Len(pending_id') = PendingIdLen
      ]_vars

\* C4: get_full_command returns (p, lower-cased first word after p, the rest or
\* "") for the first registered prefix p the text starts with and is longer
\* than, and ("", "", "") when there is none.
C4_FirstMatchingPrefixWins ==
    (call.fn = "get_full_command" /\ result.kind = "return") =>
        LET text == PyStrOf(call.arg.text)
            prefixes == call.arg.prefixes
            matching == {i \in 1..Len(prefixes) :
                            StartsWith(text, prefixes[i]) /\ Len(text) > Len(prefixes[i])}
        IN  IF matching = {} THEN result.val = EmptyTriple
            ELSE LET p == prefixes[Min(matching)]
                     parts == SplitOnce(Slice(text, Len(p) + 1, Len(text)))
                 IN  result.val = <<p, Lower(parts[1]),
                                    IF Len(parts) > 1 THEN parts[2] ELSE <<>> >>

\* the keywords of strtobool's docstring (config.py 19-20), in every letter case
TruthyKeywords ==
    UNION {CaseVariants(w) : w \in { <<"y">>, <<"y","e","s">>, <<"t">>,
                                    <<"t","r","u","e">>, <<"o","n">>, <<"1">> }}
FalsyKeywords ==
    UNION {CaseVariants(w) : w \in { <<"n">>, <<"n","o">>, <<"f">>,
                                    <<"f","a","l","s","e">>, <<"o","f","f">>, <<"0">> }}

\* C5: strtobool returns 1 for y, yes, t, true, on, 1 in any letter case, 0 for
\* n, no, f, false, off, 0 in any letter case, and raises ValueError for every
\* other string.
C5_StrtoboolKeywords ==
    (call.fn = "strtobool" /\ result.kind # "notcalled") =>
        IF call.arg.s \in TruthyKeywords THEN result = Return(PyInt(1))
        ELSE IF call.arg.s \in FalsyKeywords THEN result = Return(PyInt(0))
        ELSE result = Raise("ValueError")

\* a mixed-case keyword was accepted
C5_Witness ==
    /\ call.fn = "strtobool" /\ call.arg.s = <<"T","r","U","e">>
    /\ result = Return(PyInt(1))

\* the places 5..10 of the script: profile photo and inline mode
C6_AfterToken(username) ==
    << Text(S_setuserpic), Text(<<"@">> \o username), Photo(S_avatar),
       Text(S_setinline), Text(<<"@">> \o username), Text(S_teagram_command) >>

\* C6: _create_bot scrapes the token from the reply to the username with the
\* <code> pattern first and the bare pattern as fallback; with no match it
\* returns None and sends nothing more; with a match it returns exactly the
\* matched text, and only after the photo and inline-mode messages have all been
\* sent and answered.
C6_TokenScrape ==
    (op = "create_bot") =>
        /\ Len(received) < 4 => ret = NotReturned
        /\ Len(received) >= 4 =>
            LET text == received[4].text
                tagged == CodeSearch(text)
                bare == BareSearch(text)
                matched == IF tagged.found THEN tagged.group ELSE bare.group
            IN  /\ (~tagged.found /\ ~bare.found) =>
                        ret = NoneValue /\ phase = "done" /\ Len(sent) = 4
                /\ (tagged.found \/ bare.found) =>
                        /\ token = matched
                        /\ ret \in {NotReturned, StrValue(matched)}
                        /\ ret # NotReturned =>
                            /\ Len(received) = 10 /\ inbox = <<>> /\ owed = 0
                            /\ SubSeq(sent, 5, 10) = C6_AfterToken(bot_username)
                /\ text = R_tagged => token = BareToken
                /\ text = R_bare => token = BareToken
                /\ text = R_both => token = <<"h","e","l","l","o">>
                /\ text = R_newline => token = <<"9","9",":">> \o Secret
                /\ text = R_twice => token = <<"x">>
                /\ text = R_empty => token = <<>> /\ ret # NoneValue
                /\ text \in {R_taken, R_short} => ret = NoneValue

\* the bare pattern alone gave the token that was returned
C6_Witness ==
    /\ op = "create_bot" /\ phase = "done" /\ Len(received) = 10
    /\ received[4].text = R_bare
    /\ ret = StrValue(BareToken)

\* C7: when the reply to /revoke carries a button grid in which no label matches
\* @teagram_<6 alphanumerics>_bot (a grid without rows included), _revoke_token
\* returns False, sends no label and returns no text of a later reply.
C7_NoMatchReturnsFalse ==
    (/\ op = "revoke_token" /\ Len(received) >= 2
     /\ received[2].reply_markup.present
     /\ ~Contains(received[2].text, S_newbot)
     /\ \A r \in 1..Len(received[2].reply_markup.rows) :
            \A c \in 1..Len(received[2].reply_markup.rows[r]) :
                ~ButtonMatches(received[2].reply_markup.rows[r][c])) =>
        phase = "done" /\ ret = FalseValue /\ Len(sent) = 2

\* C8: paste_neko never raises: it returns "nekobin.com/<key>.py" when the POST
\* succeeds and the response carries a key, and "Pasting failed" for every
\* failure of the upload, a malformed response body included.
C8_PasteNeverRaises ==
    (call.fn = "paste_neko" /\ result.kind # "notcalled") =>
        LET env == call.arg
            delivered == env.connect = "ok" /\ env.status < 400 /\ env.decodable
            hasKey == /\ env.json.j = "object" /\ "result" \in DOMAIN env.json.f
                      /\ env.json.f.result.j = "object"
                      /\ "key" \in DOMAIN env.json.f.result.f
        IN  /\ result.kind = "return"
            /\ (delivered /\ hasKey) =>
                    result.val = PasteUrl(Format(env.json.f.result.f.key))
            /\ ~(delivered /\ hasKey) => result.val = PastingFailed

\* C9: validate turns a string into an int when int() accepts it, else into
\* True or False for the keywords, else returns it unchanged; what is not a
\* string is returned unchanged; it never raises.
C9_ValidateCoerces ==
    (call.fn = "validate" /\ result.kind # "notcalled") =>
        LET a == call.arg IN
        /\ result.kind = "return"
        /\ IF a.t # "str" THEN result.val = a
           ELSE IF PyIntOfStr(a.s).kind = "return" THEN result.val = PyIntOfStr(a.s).val
           ELSE IF a.s \in TruthyKeywords THEN result.val = PyBool(TRUE)
           ELSE IF a.s \in FalsyKeywords THEN result.val = PyBool(FALSE)
           ELSE result.val = a
        /\ a = PyStr(<<"1">>) => result.val = PyInt(1)
        /\ a = PyStr(<<"0">>) => result.val = PyInt(0)
        /\ a = PyStr(<<" ","4","2"," ">>) => result.val = PyInt(42)
        /\ a = PyStr(<<"-","7">>) => result.val = PyInt(-7)
        /\ a = PyStr(<<"1","_","0">>) => result.val = PyInt(10)
        /\ a \in {PyStr(<<"1","_","_","0">>), PyStr(<<"_","1">>), PyStr(<<>>),
                  PyStr(<<"Y","E","S"," ">>), PyStr(<<"1",".","5">>)} => result.val = a

\* a keyword in capitals became True
C9_Witness ==
    /\ call.fn = "validate" /\ call.arg = PyStr(<<"O","N">>)
    /\ result = Return(PyBool(TRUE))

\* the ten messages of the script, for a display name and a username
C10_Script(name, username) ==
    << Text(<<"/","c","a","n","c","e","l">>), Text(<<"/","n","e","w","b","o","t">>),
       Text(<<"T","e","a","g","r","a","m"," ","U","s","e","r","B","o","t"," ","o","f"," ">> \o name), Text(username),
       Text(<<"/","s","e","t","u","s","e","r","p","i","c">>), Text(<<"@">> \o username),
       Photo(<<"a","s","s","e","t","s","/","b","o","t","_","a","v","a","t","a","r",".","p","n","g">>), Text(<<"/","s","e","t","i","n","l","i","n","e">>),
       Text(<<"@">> \o username), Text(<<"t","e","a","g","r","a","m","-","c","o","m","m","a","n","d">>) >>

\* C10: the messages _create_bot sends are, in order, /cancel, /newbot, the
\* display name, teagram_<6 alnum>_bot, /setuserpic, @username, the avatar,
\* /setinline, @username, teagram-command, each sent only once the previous one
\* has been answered and the answer taken; a /newbot answer with "That I cannot
\* do." or "Sorry" is logged and the script goes on to the display name.
C10_LinearScript ==
    (op = "create_bot") =>
        LET shown == IF Len(display_name) > NameLimit
                     THEN SubSeq(display_name, 1, NameLimit) ELSE display_name
        IN
        /\ Len(sent) <= Len(C10_Script(shown, bot_username))
        /\ \A i \in 1..Len(sent) : sent[i] = C10_Script(shown, bot_username)[i]
        /\ Len(sent) >= 4 =>
              /\ Len(bot_username) = 18
              /\ SubSeq(bot_username, 1, 8) = <<"t","e","a","g","r","a","m","_">>
              /\ \A i \in 9..14 : bot_username[i] \in Letters \cup Digits
              /\ SubSeq(bot_username, 15, 18) = <<"_","b","o","t">>
        /\ Len(sent) <= Len(received) + 1
        /\ phase = "ask" => Len(sent) = Len(received) /\ inbox = <<>> /\ owed = 0
        /\ (Len(received) >= 2 /\ (Contains(received[2].text, S_cannot)
                                    \/ Contains(received[2].text, S_sorry))) =>
              /\ \E i \in 1..Len(log) : log[i] = "error"
              /\ Len(received) = 2 => step = 3 /\ phase # "done"
              /\ phase = "done" => Len(sent) >= 4

\* the whole script ran after @BotFather had refused /newbot
C10_Witness ==
    /\ op = "create_bot" /\ phase = "done" /\ Len(sent) = 10
    /\ Contains(received[2].text, S_sorry)
    /\ ret.t = "str"

\* the labels of a button grid that match @teagram_<6 alnum>_bot, by position
C11_Hits(rows) ==
    {rc \in UNION {{<<r, c>> : c \in 1..Len(rows[r])} : r \in 1..Len(rows)} :
        ButtonMatches(rows[rc[1]][rc[2]])}

\* the first of them in row-major order
C11_First(rows) ==
    LET rc == CHOOSE x \in C11_Hits(rows) :
                \A y \in C11_Hits(rows) : x[1] < y[1] \/ (x[1] = y[1] /\ x[2] <= y[2])
    IN  rows[rc[1]][rc[2]]

\* the place in received of the response whose grid _revoke_token scans
C11_Scanned == IF received[2].reply_markup.present THEN 2 ELSE 3

\* C11: when the button grid @BotFather returns holds a label matching
\* @teagram_<6 alnum>_bot, in whatever row and column, _revoke_token takes the
\* first such label in row-major order, sends exactly that one label, records it
\* as bot_username and returns the bare-pattern token of the next reply, or else
\* that reply's last whitespace-delimited word.
C11_SelectsFirstMatch ==
    (/\ op = "revoke_token" /\ Len(received) >= 2
     /\ ~Contains(received[2].text, S_newbot)
     /\ Len(received) >= C11_Scanned
     /\ received[C11_Scanned].reply_markup.present
     /\ C11_Hits(received[C11_Scanned].reply_markup.rows) # {}) =>
        LET label == C11_First(received[C11_Scanned].reply_markup.rows)
            reply == received[Len(received)]
        IN
        /\ bot_username = label
        /\ ret # FalseValue
        /\ Len(sent) <= 3
        /\ Len(sent) = 3 => sent[3] = Text(label)
        /\ phase # "done" => ret = NotReturned
        /\ (phase = "done" /\ LastWord(reply.text).ok) =>
              /\ Len(received) = C11_Scanned + 1 /\ Len(sent) = 3
              /\ ret = IF BareSearch(reply.text).found
                       THEN StrValue(BareSearch(reply.text).group)
                       ELSE StrValue(LastWord(reply.text).word)

\* C12: when the first /cancel fails because the account has blocked
\* @BotFather, _create_bot and _revoke_token unblock it and go on: with
\* @BotFather answering once every message delivered to it, /newbot
\* (respectively /revoke) is sent and the script comes to its end.
C12_ContinuesAfterUnblock ==
    (op \in {"create_bot", "revoke_token"} /\ blocked) ~>
        (/\ phase = "done"
         /\ \E i \in 1..Len(sent) : sent[i] \in {Text(S_newbot), Text(S_revoke)})

\* C13: for every module m and attribute a that answer_callback_handler has
\* rendered as a button with the data 'ch_attr_<m>_<a>', the owner's press of
\* that button makes change_attribute_callback_handler recover module m and
\* attribute a, record a as the pending edit of m and store it under the new
\* correlation id in the bot's pending-edit map, also when a name holds an
\* underscore.
C13_CallbackDataRoundTrip ==
    [][\A m \in CfgModules : \A a \in AttrsOf(m) :
        LET data == S_ch_attr_ \o m \o <<"_">> \o a IN
        (/\ me = "owner" /\ data \in buttons
         /\ change_attribute_callback_handler("owner", data)) =>
            /\ last'.raised = ""
            /\ pending' = PyStr(a)
            /\ pending_module' = ModuleRef(m)
            /\ pending_id' \in CorrelationIds
            /\ bot_cfg'[pending_id'].attr = a
            /\ bot_cfg'[pending_id'].mod = ModuleRef(m)
      ]_vars

====
